---- MODULE Spec2Model ----
(***************************************************************************)
(* The PathPilot API gateway (src/api/server.js): an express server whose  *)
(* model-backed handlers proxy a prompt to the generative model through    *)
(* callGemini, substituting a static fallback on HTTP 429, and whose       *)
(* store-backed handlers reach MongoDB through the lazily initialised      *)
(* handle db.  Every await of the source is one step of the model.         *)
(***************************************************************************)
EXTENDS Integers, Sequences, FiniteSets, TLC

\* ------------------------------------------------------------------ bounds
\* request slots of the whole gateway (Spec)
MaxReq == 1
\* request slots of the store-backed handlers alone (SpecStore)
MaxStoreReq == 2
\* how far a requested numQuestions exceeds the catalog (Spec)
MaxOver == 1
\* largest and most negative count handed to the quiz builder (SpecBuilder)
MaxNum == 13
MaxNeg == 1
\* largest value of Date.now()
MaxClock == 1
\* request slots and stored documents of the quiz_results collection (SpecData)
MaxDataReq == 1
MaxDocs == 2
\* model-backed requests whose prompts are held side by side (SpecPrompt)
MaxPromptReq == 2
\* requests of any endpoint in flight together (SpecAll)
MaxAllReq == 2

\* ------------------------------------------------------- JavaScript values
JsUndefined == [t |-> "undefined", v |-> 0]
JsNull == [t |-> "null", v |-> 0]
JsNum(n) == [t |-> "number", v |-> n]
\* the empty string; v is the number it converts to
JsEmptyString == [t |-> "string", v |-> 0]

\* ToBoolean(x) is false
Falsy(x) == x.t \in {"undefined", "null"} \/ (x.t = "number" /\ x.v = 0) \/ x = JsEmptyString

\* x ?? d, which replaces undefined and null only
OrElseNullish(x, d) == IF x.t \in {"undefined", "null"} THEN d ELSE x

\* x || d
OrElse(x, d) == IF Falsy(x) THEN d ELSE x

\* a destructuring or parameter default: { x = d }
Default(x, d) == IF x = JsUndefined THEN d ELSE x

\* !s for an environment variable; "undefined" stands for an unset variable
Unset(s) == s \in {"undefined", ""}

\* Math.min(a, b)
MathMin(a, b) == IF a < b THEN a ELSE b

\* Array.prototype.slice(start, end) on integers
RelIndex(i, len) == IF i < 0 THEN (IF len + i < 0 THEN 0 ELSE len + i) ELSE MathMin(i, len)

\* a slice that returns its first element over and over
sliceRepeatFirst(arr, start, end) ==
  LET from == RelIndex(start, Len(arr))
      to == RelIndex(end, Len(arr))
  IN [i \in 1..(IF to > from THEN to - from ELSE 0) |-> arr[from + 1]]

slice(arr, start, end) ==
  LET from == RelIndex(start, Len(arr))
      to == RelIndex(end, Len(arr))
  IN [i \in 1..(IF to > from THEN to - from ELSE 0) |-> arr[from + i]]

\* JSON.stringify of a JSON-safe value, and text that is not JSON at all
JSONstringify(value) == [json |-> value]

RawText(s) == [raw |-> s]

\* JSON.parse: throws on text that is not JSON
JSONparse(txt) ==
  IF "json" \in DOMAIN txt THEN [threw |-> FALSE, value |-> txt.json]
  ELSE [threw |-> TRUE, value |-> [error |-> "SyntaxError: Unexpected token"]]

\* { candidates: [{ content: { parts: [{ text }] } }] }
Envelope(text) == [candidates |-> << [content |-> [parts |-> << [text |-> text] >>]] >>]

\* --------------------------------------------------- static fallback data
careers ==
  << [id |-> "ai_engineer", title |-> "AI Engineer", description |-> "Build and deploy AI/ML systems for products.", category |-> "Technology", requiredSkills |-> <<"python", "ml">>, recommendedSkills |-> <<"LLMs">>, averageSalary |-> 125000, growthPotential |-> "High", companies |-> <<"OpenAI">>, courses |-> <<"DL Spec">>, imageUrl |-> ""],
     [id |-> "data_scientist", title |-> "Data Scientist", description |-> "Analyze data and build predictive models.", category |-> "Data Science", requiredSkills |-> <<"python", "statistics">>, recommendedSkills |-> <<"sql">>, averageSalary |-> 110000, growthPotential |-> "High", companies |-> <<"Netflix">>, courses |-> <<"Intro to ML">>, imageUrl |-> ""],
     [id |-> "ux_designer", title |-> "UX Designer", description |-> "Design intuitive user experiences.", category |-> "Design", requiredSkills |-> <<"research", "wireframing">>, recommendedSkills |-> <<"prototyping">>, averageSalary |-> 90000, growthPotential |-> "Medium", companies |-> <<"Figma">>, courses |-> <<"UX Foundations">>, imageUrl |-> ""],
     [id |-> "product_manager", title |-> "Product Manager", description |-> "Drive product vision and execution.", category |-> "Business", requiredSkills |-> <<"communication">>, recommendedSkills |-> <<"analytics">>, averageSalary |-> 120000, growthPotential |-> "High", companies |-> <<"Google">>, courses |-> <<"PM Fundamentals">>, imageUrl |-> ""],
     [id |-> "nurse_practitioner", title |-> "Nurse Practitioner", description |-> "Provide healthcare services.", category |-> "Healthcare", requiredSkills |-> <<"patient care">>, recommendedSkills |-> <<"informatics">>, averageSalary |-> 105000, growthPotential |-> "High", companies |-> <<"Hospitals">>, courses |-> <<"Clinical">>, imageUrl |-> ""],
     [id |-> "financial_analyst", title |-> "Financial Analyst", description |-> "Analyze financial data.", category |-> "Finance", requiredSkills |-> <<"excel", "modeling">>, recommendedSkills |-> <<"sql">>, averageSalary |-> 90000, growthPotential |-> "Medium", companies |-> <<"Banks">>, courses |-> <<"Finance">>, imageUrl |-> ""],
     [id |-> "teacher", title |-> "Teacher", description |-> "Educate students.", category |-> "Education", requiredSkills |-> <<"instruction">>, recommendedSkills |-> <<"assessment">>, averageSalary |-> 65000, growthPotential |-> "Medium", companies |-> <<"Schools">>, courses |-> <<"Education">>, imageUrl |-> ""],
     [id |-> "digital_marketer", title |-> "Digital Marketer", description |-> "Run campaigns and grow brand reach.", category |-> "Marketing", requiredSkills |-> <<"seo", "content">>, recommendedSkills |-> <<"analytics">>, averageSalary |-> 80000, growthPotential |-> "Medium", companies |-> <<"Agencies">>, courses |-> <<"Marketing">>, imageUrl |-> ""],
     [id |-> "civil_engineer", title |-> "Civil Engineer", description |-> "Design infrastructure.", category |-> "Engineering", requiredSkills |-> <<"cad">>, recommendedSkills |-> <<"materials">>, averageSalary |-> 98000, growthPotential |-> "Medium", companies |-> <<"AEC">>, courses |-> <<"Civil">>, imageUrl |-> ""],
     [id |-> "graphic_designer", title |-> "Graphic Designer", description |-> "Create visual concepts.", category |-> "Arts", requiredSkills |-> <<"photoshop">>, recommendedSkills |-> <<"illustration">>, averageSalary |-> 70000, growthPotential |-> "Low", companies |-> <<"Studios">>, courses |-> <<"Design">>, imageUrl |-> ""] >>

allQuestions ==
  << [id |-> "q1", question |-> "How do you prefer to work?",
        options |-> <<[id |-> "a", text |-> "Independently"], [id |-> "b", text |-> "In a team"], [id |-> "c", text |-> "With guidance"], [id |-> "d", text |-> "Leading others"]>>,
        correctAnswerId |-> "b", explanation |-> "This helps assess your working style preference.", points |-> 2],
     [id |-> "q2", question |-> "What motivates you most?",
        options |-> <<[id |-> "a", text |-> "Recognition"], [id |-> "b", text |-> "Learning new things"], [id |-> "c", text |-> "Helping others"], [id |-> "d", text |-> "Financial rewards"]>>,
        correctAnswerId |-> "b", explanation |-> "This reveals your primary motivation drivers.", points |-> 2],
     [id |-> "q3", question |-> "How do you handle stress?",
        options |-> <<[id |-> "a", text |-> "Take breaks and relax"], [id |-> "b", text |-> "Work harder to solve it"], [id |-> "c", text |-> "Ask for help"], [id |-> "d", text |-> "Ignore it and move on"]>>,
        correctAnswerId |-> "a", explanation |-> "This shows your stress management approach.", points |-> 2],
     [id |-> "q4", question |-> "What type of environment do you prefer?",
        options |-> <<[id |-> "a", text |-> "Quiet and focused"], [id |-> "b", text |-> "Dynamic and fast-paced"], [id |-> "c", text |-> "Collaborative and social"], [id |-> "d", text |-> "Creative and flexible"]>>,
        correctAnswerId |-> "c", explanation |-> "This indicates your ideal work environment.", points |-> 2],
     [id |-> "q5", question |-> "How do you make decisions?",
        options |-> <<[id |-> "a", text |-> "Quickly and intuitively"], [id |-> "b", text |-> "After careful analysis"], [id |-> "c", text |-> "With input from others"], [id |-> "d", text |-> "Based on past experience"]>>,
        correctAnswerId |-> "b", explanation |-> "This reveals your decision-making style.", points |-> 2],
     [id |-> "q6", question |-> "What do you value most in a career?",
        options |-> <<[id |-> "a", text |-> "Job security"], [id |-> "b", text |-> "Growth opportunities"], [id |-> "c", text |-> "Work-life balance"], [id |-> "d", text |-> "Making a difference"]>>,
        correctAnswerId |-> "d", explanation |-> "This shows your career priorities.", points |-> 2],
     [id |-> "q7", question |-> "How do you prefer to learn?",
        options |-> <<[id |-> "a", text |-> "Through hands-on practice"], [id |-> "b", text |-> "By reading and studying"], [id |-> "c", text |-> "Through discussion and debate"], [id |-> "d", text |-> "By watching demonstrations"]>>,
        correctAnswerId |-> "a", explanation |-> "This indicates your learning style preference.", points |-> 2],
     [id |-> "q8", question |-> "What type of problems do you enjoy solving?",
        options |-> <<[id |-> "a", text |-> "Technical and logical"], [id |-> "b", text |-> "Creative and artistic"], [id |-> "c", text |-> "People and relationship issues"], [id |-> "d", text |-> "Strategic and planning problems"]>>,
        correctAnswerId |-> "a", explanation |-> "This reveals your problem-solving preferences.", points |-> 2],
     [id |-> "q9", question |-> "How do you handle feedback?",
        options |-> <<[id |-> "a", text |-> "Welcome it and use it to improve"], [id |-> "b", text |-> "Consider it carefully"], [id |-> "c", text |-> "Feel defensive initially"], [id |-> "d", text |-> "Ignore negative feedback"]>>,
        correctAnswerId |-> "a", explanation |-> "This shows your openness to growth and improvement.", points |-> 2],
     [id |-> "q10", question |-> "What energizes you most?",
        options |-> <<[id |-> "a", text |-> "Meeting new people"], [id |-> "b", text |-> "Completing challenging tasks"], [id |-> "c", text |-> "Learning something new"], [id |-> "d", text |-> "Helping others succeed"]>>,
        correctAnswerId |-> "c", explanation |-> "This indicates what drives your motivation.", points |-> 2],
     [id |-> "q11", question |-> "How do you prefer to communicate?",
        options |-> <<[id |-> "a", text |-> "Face-to-face conversations"], [id |-> "b", text |-> "Written messages and emails"], [id |-> "c", text |-> "Phone calls and video chats"], [id |-> "d", text |-> "Presentations and public speaking"]>>,
        correctAnswerId |-> "a", explanation |-> "This shows your communication style preference.", points |-> 2],
     [id |-> "q12", question |-> "What role do you typically take in groups?",
        options |-> <<[id |-> "a", text |-> "Leader and organizer"], [id |-> "b", text |-> "Contributor and supporter"], [id |-> "c", text |-> "Observer and analyzer"], [id |-> "d", text |-> "Mediator and peacemaker"]>>,
        correctAnswerId |-> "b", explanation |-> "This reveals your natural group dynamics role.", points |-> 2] >>

recommendations ==
  [recommendations |->
    << [career |-> "Software Engineer", explanation |-> "Based on your technical skills and problem-solving abilities."],
       [career |-> "Data Analyst", explanation |-> "Your analytical thinking makes you well-suited for data analysis."],
       [career |-> "Project Manager", explanation |-> "Your organizational and communication skills are perfect for project management."] >>]

buildTrendingFallbackCandidates == Envelope(JSONstringify([careers |-> careers]))

buildRecommendationsFallbackCandidates == Envelope(JSONstringify(recommendations))

\* a builder that pads the request by cycling through the catalog
buildQuizFallbackCandidatesWrap(numQuestions, t) ==
  LET n == Default(numQuestions, JsNum(10)).v
      selectedQuestions == [i \in 1..n |-> allQuestions[((i - 1) % Len(allQuestions)) + 1]]
      quiz == [id |-> <<"quiz_", t>>,
               title |-> "Personality Assessment Quiz",
               description |-> "A comprehensive quiz to assess your personality traits and preferences",
               questions |-> selectedQuestions]
  IN Envelope(JSONstringify(quiz))

\* numQuestions is a JavaScript value (default 10), t the value of Date.now()
buildQuizFallbackCandidates(numQuestions, t) ==
  LET n == Default(numQuestions, JsNum(10)).v
      selectedQuestions == slice(allQuestions, 0, MathMin(n, Len(allQuestions)))
      quiz == [id |-> <<"quiz_", t>>,
               title |-> "Personality Assessment Quiz",
               description |-> "A comprehensive quiz to assess your personality traits and preferences",
               questions |-> selectedQuestions]
  IN Envelope(JSONstringify(quiz))

\* ------------------------------------------------------------ model client
\* r.ok of a fetch response
Ok(status) == 200 <= status /\ status <= 299

\* a client that substitutes the fallback on every non-success status
callGeminiAnyError(status, txt, fallbackType, fallbackParams, t) ==
  IF ~ Ok(status)
  THEN [threw |-> FALSE,
        value |-> IF fallbackType = "quiz"
                  THEN buildQuizFallbackCandidates(OrElse(fallbackParams.numQuestions, JsNum(10)), t)
                  ELSE IF fallbackType = "recommendations"
                  THEN buildRecommendationsFallbackCandidates
                  ELSE buildTrendingFallbackCandidates]
  ELSE JSONparse(txt)

\* callGemini after the awaits of fetch and r.text(): the status check, the
\* fallback selection on 429, the throw on any other failure, the parse.
\* (The thrown message also carries txt; the model keeps the status only.)
callGemini(status, txt, fallbackType, fallbackParams, t) ==
  IF ~ Ok(status)
  THEN IF status = 429
       THEN [threw |-> FALSE,
             value |-> IF fallbackType = "quiz"
                       THEN buildQuizFallbackCandidates(OrElse(fallbackParams.numQuestions, JsNum(10)), t)
                       ELSE IF fallbackType = "recommendations"
                       THEN buildRecommendationsFallbackCandidates
                       ELSE buildTrendingFallbackCandidates]
       ELSE [threw |-> TRUE, value |-> [error |-> "Error: Gemini error " \o ToString(status)]]
  ELSE JSONparse(txt)

\* --------------------------------------------------------------- endpoints
ModelEndpoints ==
  {"POST /trending", "POST /recommend", "POST /enrich", "POST /quiz",
   "POST /careers-by-category", "POST /career-recommendations"}

StoreEndpoints ==
  {"GET /careers", "POST /careers", "POST /quiz-results", "GET /quiz-results/:userId"}

\* the count-like body parameter each handler destructures, with its default
paramDefault(endpoint) ==
  CASE endpoint = "POST /trending" -> JsNum(24)
    [] endpoint = "POST /recommend" -> JsNum(12)
    [] endpoint = "POST /quiz" -> JsNum(5)
    [] endpoint = "POST /careers-by-category" -> JsNum(15)
    [] endpoint = "POST /career-recommendations" -> JsNum(3)
    [] OTHER -> JsUndefined

\* handlers that all leave the fallback kind at its default
fallbackTypeDefault(endpoint) == "trending"

\* handlers of which /careers-by-category asks for the recommendations kind
fallbackTypeByCategory(endpoint) ==
  CASE endpoint = "POST /quiz" -> "quiz"
    [] endpoint \in {"POST /career-recommendations", "POST /careers-by-category"} -> "recommendations"
    [] OTHER -> "trending"

\* the second argument a handler passes to callGemini (default 'trending')
fallbackType(endpoint) ==
  CASE endpoint = "POST /quiz" -> "quiz"
    [] endpoint = "POST /career-recommendations" -> "recommendations"
    [] OTHER -> "trending"

\* a handler that passes the body's numQuestions as it came, undefaulted
fallbackParamsRaw(endpoint, param) ==
  IF endpoint = "POST /quiz" THEN [numQuestions |-> param] ELSE [numQuestions |-> JsUndefined]

\* the third argument a handler passes to callGemini (default {})
fallbackParams(endpoint, param) ==
  IF endpoint = "POST /quiz"
  THEN [numQuestions |-> Default(param, paramDefault(endpoint))]
  ELSE [numQuestions |-> JsUndefined]

\* the prompt a handler interpolates: its template, the count it names and,
\* for /quiz, the Date.now() written into the requested id
prompt(endpoint, param, t) ==
  [template |-> endpoint,
   count |-> Default(param, paramDefault(endpoint)),
   stamp |-> IF endpoint = "POST /quiz" THEN t ELSE 0]

payload(endpoint, param, t) ==
  [contents |-> << [role |-> "user", parts |-> << [text |-> prompt(endpoint, param, t)] >>] >>]

\* a catch block that answers 500 on every endpoint
handlerCatchAlways500(endpoint, e) == [status |-> 500, body |-> [error |-> e]]

\* the catch block of a handler
handlerCatch(endpoint, e) ==
  IF endpoint = "POST /trending"
  THEN [status |-> 200, body |-> buildTrendingFallbackCandidates]
  ELSE [status |-> 500, body |-> [error |-> e]]

\* res.json(data) after a call that returned, the catch block after a throw
handlerRespond(endpoint, result) ==
  IF result.threw THEN handlerCatch(endpoint, result.value.error)
  ELSE [status |-> 200, body |-> result.value]

\* an initDb without the guard on the connection string
initDbNoUriCheck(uri, handle) == IF handle = "undefined" THEN "connect" ELSE "return"

\* initDb that connects whether or not db is set
initDbAlwaysConnect(uri, handle) == IF Unset(uri) THEN "throw" ELSE "connect"

\* initDb up to its await: throw, call client.connect(), or return at once
initDb(uri, handle) ==
  IF Unset(uri) THEN "throw"
  ELSE IF handle = "undefined" THEN "connect"
  ELSE "return"

\* ------------------------------------------------------------ environment
EnvValues == {"undefined", "", "set"}

\* statuses the model answers with
StatusValues == {200, 429, 500}

\* bodies the model answers with: not JSON, a well-formed envelope, an
\* envelope whose text is prose, and JSON without candidates
liveValue == [recommendations |-> << [career |-> "Nurse", explanation |-> "Caring"] >>]

TxtValues ==
  {RawText("<html>Bad Gateway</html>"),
   JSONstringify(Envelope(JSONstringify(liveValue))),
   JSONstringify(Envelope(RawText("Here are some careers"))),
   JSONstringify([promptFeedback |-> [blockReason |-> "SAFETY"]])}

NoTxt == RawText("")

\* numQuestions of a /quiz body: absent, null, and counts around the catalog
NumQ ==
  {JsUndefined, JsNull, JsEmptyString} \cup
  {JsNum(n) : n \in {0, 1, Len(allQuestions) - 1} \cup (Len(allQuestions)..(Len(allQuestions) + MaxOver))}

CountValues == {JsUndefined, JsNum(2)}

ParamValues(endpoint) ==
  IF endpoint = "POST /quiz" THEN NumQ
  ELSE IF endpoint = "POST /enrich" THEN {JsUndefined}
  ELSE CountValues

\* values of Date.now(); only the /quiz handler and its fallback read the clock
Stamps(endpoint) == IF endpoint = "POST /quiz" THEN 0..MaxClock ELSE {0}

\* counts handed to the quiz fallback builder when it is called directly
BuilderArgs == {JsUndefined} \cup {JsNum(n) : n \in (0 - MaxNeg)..MaxNum}

\* ------------------------------------------------------------------ state
VARIABLES
  mongoUri,   \* process.env.MONGODB_URI
  geminiKey,  \* process.env.GEMINI_KEY
  db,         \* the shared store handle: "undefined" or "db"
  listening,  \* the process is alive and serving
  req,        \* the requests being handled, one per slot
  quizCall,   \* a direct call of the quiz fallback builder
  quiz_results \* the documents of the store's quiz_results collection

vars == <<mongoUri, geminiKey, db, listening, req, quizCall, quiz_results>>

Max2(a, b) == IF a > b THEN a ELSE b

Slots == 1..Max2(Max2(Max2(MaxReq, MaxStoreReq), Max2(MaxDataReq, MaxPromptReq)), MaxAllReq)

NoRes == [status |-> 0, body |-> [none |-> TRUE]]

NoPayload == [contents |-> <<>>]

\* req.body and req.params of a store-backed request: the userId it names and
\* the createdAt the caller supplied
NoBody == [userId |-> "", createdAt |-> JsUndefined]

\* the document a handler hands to insertOne, before there is one
NoDoc == [userId |-> "", createdAt |-> JsUndefined]

Idle ==
  [pc |-> "idle", endpoint |-> "", param |-> JsUndefined, payload |-> NoPayload,
   outcome |-> "none", status |-> 0, txt |-> NoTxt,
   fetchCalls |-> 0, connectCalls |-> 0, storeOps |-> 0, sent |-> 0, res |-> NoRes,
   body |-> NoBody, doc |-> NoDoc, elapsed |-> 0]

NoCall == [arg |-> JsUndefined, called |-> FALSE, ret |-> Envelope(NoTxt)]

Init ==
  /\ mongoUri \in EnvValues
  /\ geminiKey \in EnvValues
  /\ db = "undefined"
  /\ listening = TRUE
  /\ req = [r \in Slots |-> Idle]
  /\ quizCall = NoCall
  /\ quiz_results = <<>>

\* res.json / res.status(..).json: one response leaves the handler
send(q, response, outcome) ==
  [q EXCEPT !.pc = "done", !.outcome = outcome, !.sent = @ + 1, !.res = response]

\* ------------------------------------------------- model-backed handlers
\* a handler whose call goes out without the credential check
RecvModelNoKeyCheck(r, endpoint, param, t) ==
  /\ listening
  /\ req[r].pc = "idle"
  /\ req' = [req EXCEPT ![r] =
               [@ EXCEPT !.endpoint = endpoint, !.param = param, !.pc = "fetch",
                         !.fetchCalls = @ + 1, !.payload = payload(endpoint, param, t)]]
  /\ UNCHANGED <<mongoUri, geminiKey, db, listening, quizCall, quiz_results>>

\* A model-backed handler runs up to the await of fetch: it builds the
\* prompt (t is Date.now() for the /quiz template), and callGemini throws
\* without a credential or issues the call.
RecvModel(r, endpoint, param, t) ==
  /\ listening
  /\ req[r].pc = "idle"
  /\ LET q == [req[r] EXCEPT !.endpoint = endpoint, !.param = param]
     IN IF Unset(geminiKey)
        THEN req' = [req EXCEPT ![r] =
                       send(q, handlerCatch(endpoint, "Error: GEMINI_KEY not set"), "nokey")]
        ELSE req' = [req EXCEPT ![r] =
                       [q EXCEPT !.pc = "fetch", !.fetchCalls = @ + 1,
                                 !.payload = payload(endpoint, param, t)]]
  /\ UNCHANGED <<mongoUri, geminiKey, db, listening, quizCall, quiz_results>>

\* fetch resolves with a status line
FetchResolve(r, status) ==
  /\ req[r].pc = "fetch"
  /\ req' = [req EXCEPT ![r].pc = "text", ![r].status = status]
  /\ UNCHANGED <<mongoUri, geminiKey, db, listening, quizCall, quiz_results>>

\* a client that issues the call again after a network failure
FetchRejectRetry(r) ==
  /\ req[r].pc = "fetch"
  /\ req[r].fetchCalls < 3
  /\ req' = [req EXCEPT ![r].fetchCalls = @ + 1]
  /\ UNCHANGED <<mongoUri, geminiKey, db, listening, quizCall, quiz_results>>

\* fetch rejects (network failure): the handler's catch block answers
FetchReject(r) ==
  /\ req[r].pc = "fetch"
  /\ req' = [req EXCEPT ![r] =
               send(@, handlerCatch(@.endpoint, "FetchError: request failed"), "fetchreject")]
  /\ UNCHANGED <<mongoUri, geminiKey, db, listening, quizCall, quiz_results>>

\* r.text() resolves: callGemini finishes and the handler answers.  t is
\* Date.now() should the quiz fallback be built; txt is recorded when the
\* status is a success, the one case in which it is parsed
TextResolve(r, txt, t) ==
  /\ req[r].pc = "text"
  /\ t \in Stamps(req[r].endpoint)
  /\ LET q == req[r]
         result == callGemini(q.status, txt, fallbackType(q.endpoint),
                              fallbackParams(q.endpoint, q.param), t)
     IN req' = [req EXCEPT ![r] =
                  send([q EXCEPT !.txt = IF Ok(q.status) THEN txt ELSE NoTxt], handlerRespond(q.endpoint, result), "text")]
  /\ UNCHANGED <<mongoUri, geminiKey, db, listening, quizCall, quiz_results>>

\* a rejection of r.text() that no catch block turns into a response
TextRejectUnanswered(r) ==
  /\ req[r].pc = "text"
  /\ req' = [req EXCEPT ![r].pc = "done", ![r].outcome = "textreject"]
  /\ UNCHANGED <<mongoUri, geminiKey, db, listening, quizCall, quiz_results>>

\* r.text() rejects (the connection breaks while the body is read)
TextReject(r) ==
  /\ req[r].pc = "text"
  /\ req' = [req EXCEPT ![r] =
               send(@, handlerCatch(@.endpoint, "FetchError: body read failed"), "textreject")]
  /\ UNCHANGED <<mongoUri, geminiKey, db, listening, quizCall, quiz_results>>

\* ------------------------------------------------- store-backed handlers
\* new Date() at clock value t, as the store keeps it
DateAt(t) == [t |-> "date", v |-> t]

\* { createdAt: new Date(), ...req.body }: a createdAt of the body wins
quizResultDocBodyWins(body, t) ==
  IF body.createdAt = JsUndefined THEN [body EXCEPT !.createdAt = DateAt(t)] ELSE body

\* { ...req.body, createdAt: new Date() }
quizResultDoc(body, t) == [body EXCEPT !.createdAt = DateAt(t)]

\* the handler calls its store operation; /quiz-results builds its document
startOp(q, t) ==
  [q EXCEPT !.pc = "op", !.storeOps = @ + 1,
            !.doc = IF q.endpoint = "POST /quiz-results" THEN quizResultDoc(q.body, t) ELSE NoDoc]

\* A store-backed handler runs initDb up to its await; body is req.body and
\* req.params, t the clock should the operation start at once
RecvStoreAt(r, endpoint, body, t) ==
  /\ listening
  /\ req[r].pc = "idle"
  /\ LET q == [req[r] EXCEPT !.endpoint = endpoint, !.body = body]
         step == initDb(mongoUri, db)
     IN req' = [req EXCEPT ![r] =
          CASE step = "throw" ->
                 send(q, handlerCatch(endpoint, "Error: MONGODB_URI not set"), "nouri")
            [] step = "connect" -> [q EXCEPT !.pc = "connect", !.connectCalls = @ + 1]
            [] OTHER -> startOp(q, t)]
  /\ UNCHANGED <<mongoUri, geminiKey, db, listening, quizCall, quiz_results>>

\* a store-backed request whose body is not looked at
RecvStore(r, endpoint) == RecvStoreAt(r, endpoint, NoBody, 0)

\* client.connect() resolves: db is assigned and the store operation starts
ConnectResolveAt(r, t) ==
  /\ req[r].pc = "connect"
  /\ db' = "db"
  /\ req' = [req EXCEPT ![r] = startOp(@, t)]
  /\ UNCHANGED <<mongoUri, geminiKey, listening, quizCall, quiz_results>>

ConnectResolve(r) == ConnectResolveAt(r, 0)

\* a rejected client.connect() after which the handle is set all the same
ConnectRejectCachesHandle(r) ==
  /\ req[r].pc = "connect"
  /\ db' = "db"
  /\ req' = [req EXCEPT ![r] =
               send(@, handlerCatch(@.endpoint, "MongoServerSelectionError"), "connectreject")]
  /\ UNCHANGED <<mongoUri, geminiKey, listening, quizCall, quiz_results>>

\* client.connect() rejects, whenever and for whatever reason
ConnectReject(r) ==
  /\ req[r].pc = "connect"
  /\ req' = [req EXCEPT ![r] =
               send(@, handlerCatch(@.endpoint, "MongoServerSelectionError"), "connectreject")]
  /\ UNCHANGED <<mongoUri, geminiKey, db, listening, quizCall, quiz_results>>

\* the store operation resolves, toArray() or insertOne(), with an answer of
\* the store that is taken as given: no document, a fresh id
OpResolve(r) ==
  /\ req[r].pc = "op"
  /\ req' = [req EXCEPT ![r] =
               send(@, [status |-> 200,
                        body |-> IF @.endpoint \in {"GET /careers", "GET /quiz-results/:userId"}
                                 THEN [array |-> <<>>]
                                 ELSE [insertedId |-> "ObjectId"]], "op")]
  /\ UNCHANGED <<mongoUri, geminiKey, db, listening, quizCall, quiz_results>>

\* the store operation rejects
OpReject(r) ==
  /\ req[r].pc = "op"
  /\ req' = [req EXCEPT ![r] =
               send(@, handlerCatch(@.endpoint, "MongoError"), "opreject")]
  /\ UNCHANGED <<mongoUri, geminiKey, db, listening, quizCall, quiz_results>>

\* GET /: the health route answers at once
Health(r) ==
  /\ listening
  /\ req[r].pc = "idle"
  /\ req' = [req EXCEPT ![r] =
               send([@ EXCEPT !.endpoint = "GET /"], [status |-> 200, body |-> [text |-> "OK"]], "health")]
  /\ UNCHANGED <<mongoUri, geminiKey, db, listening, quizCall, quiz_results>>

\* the response has left; the slot takes the next request
Close(r) ==
  /\ req[r].pc = "done"
  /\ req' = [req EXCEPT ![r] = Idle]
  /\ UNCHANGED <<mongoUri, geminiKey, db, listening, quizCall, quiz_results>>

\* serverSelectionTimeoutMS: 15000, in seconds
ServerSelectionTimeoutS == 15

\* a second passes for a pending client.connect()
ConnectTick(r) ==
  /\ req[r].pc = "connect"
  /\ req[r].elapsed < ServerSelectionTimeoutS
  /\ req' = [req EXCEPT ![r].elapsed = @ + 1]
  /\ UNCHANGED <<mongoUri, geminiKey, db, listening, quizCall, quiz_results>>

\* a server selection that starts over at its bound instead of failing
ConnectTimeoutStartsOver(r) ==
  /\ req[r].pc = "connect"
  /\ req[r].elapsed = ServerSelectionTimeoutS
  /\ req' = [req EXCEPT ![r].elapsed = 0]
  /\ UNCHANGED <<mongoUri, geminiKey, db, listening, quizCall, quiz_results>>

\* no server was selected within serverSelectionTimeoutMS: client.connect()
\* rejects and the handler's catch answers
ConnectTimeout(r) ==
  /\ req[r].pc = "connect"
  /\ req[r].elapsed = ServerSelectionTimeoutS
  /\ req' = [req EXCEPT ![r] =
               send(@, handlerCatch(@.endpoint, "MongoServerSelectionError"), "connecttimeout")]
  /\ UNCHANGED <<mongoUri, geminiKey, db, listening, quizCall, quiz_results>>

\* ---------------------------------------------------------- specifications
\* (a request is received at the clock's origin; SpecPrompt varies the clock
\* value a prompt is built at)
ModelNext(r) ==
  \/ \E endpoint \in ModelEndpoints : \E param \in ParamValues(endpoint) :
       RecvModel(r, endpoint, param, 0)
  \/ \E status \in StatusValues : FetchResolve(r, status)
  \/ FetchReject(r)
  \/ \E txt \in TxtValues : \E t \in 0..MaxClock : TextResolve(r, txt, t)
  \/ TextReject(r)

StoreNext(r) ==
  \/ \E endpoint \in StoreEndpoints : RecvStore(r, endpoint)
  \/ ConnectResolve(r)
  \/ ConnectReject(r)
  \/ OpResolve(r)
  \/ OpReject(r)

\* the whole gateway
Next ==
  \E r \in 1..MaxReq : ModelNext(r) \/ StoreNext(r) \/ Health(r) \/ Close(r)

Spec == Init /\ [][Next]_vars

\* the store-backed handlers alone, with more requests in flight
NextStore ==
  \E r \in 1..MaxStoreReq : StoreNext(r) \/ Close(r)

SpecStore == Init /\ [][NextStore]_vars

\* the quiz fallback builder called on its own
CallBuilder(numQuestions, t) ==
  /\ quizCall' = [arg |-> numQuestions, called |-> TRUE,
                  ret |-> buildQuizFallbackCandidates(numQuestions, t)]
  /\ UNCHANGED <<mongoUri, geminiKey, db, listening, req, quiz_results>>

NextBuilder ==
  \E numQuestions \in BuilderArgs : \E t \in 0..MaxClock : CallBuilder(numQuestions, t)

SpecBuilder == Init /\ [][NextBuilder]_vars

\* bodies of the model in SpecAll: one that does not parse and one that does
AllTxtValues ==
  {RawText("<html>Bad Gateway</html>"), JSONstringify(Envelope(JSONstringify(liveValue)))}

\* one endpoint of each handler text: /enrich and /careers-by-category read
\* as /recommend does, POST /careers and GET /quiz-results/:userId as the two
\* store handlers kept
AllModelEndpoints ==
  {"POST /trending", "POST /recommend", "POST /quiz", "POST /career-recommendations"}

AllStoreEndpoints == {"GET /careers", "POST /quiz-results"}

\* requests of every kind in flight together, each model-backed request with
\* its default parameters
NextAll ==
  \E r \in 1..MaxAllReq :
    \/ \E endpoint \in AllModelEndpoints : RecvModel(r, endpoint, JsUndefined, 0)
    \/ \E status \in StatusValues : FetchResolve(r, status)
    \/ FetchReject(r)
    \/ \E txt \in AllTxtValues : TextResolve(r, txt, 0)
    \/ TextReject(r)
    \/ \E endpoint \in AllStoreEndpoints : RecvStore(r, endpoint)
    \/ ConnectResolve(r)
    \/ ConnectReject(r)
    \/ OpResolve(r)
    \/ OpReject(r)
    \/ Health(r)
    \/ Close(r)

\* each environment variable set or absent
InitAll == Init /\ mongoUri # "" /\ geminiKey # ""

SpecAll == InitAll /\ [][NextAll]_vars

\* model-backed requests side by side, up to the call that carries the prompt
NextPrompt ==
  \E r \in 1..MaxPromptReq :
    \/ \E endpoint \in ModelEndpoints : \E param \in ParamValues(endpoint) :
         \E t \in Stamps(endpoint) : RecvModel(r, endpoint, param, t)
    \/ FetchReject(r)

SpecPrompt == Init /\ [][NextPrompt]_vars

\* the store-backed handlers with the time a connection attempt takes
NextLive ==
  \E r \in 1..MaxReq : StoreNext(r) \/ ConnectTick(r) \/ ConnectTimeout(r) \/ Close(r)

InitLive == Init /\ geminiKey = "set"

\* time passes, the driver ends a server selection at its bound, and a store
\* operation on a selected server settles
FairLive ==
  \A r \in 1..MaxReq :
    /\ WF_vars(ConnectTick(r))
    /\ WF_vars(ConnectTimeout(r))
    /\ WF_vars(OpResolve(r) \/ OpReject(r))

SpecLive == InitLive /\ [][NextLive]_vars /\ FairLive

\* ------------------------------------------- the quiz_results collection
Users == {"u1", "u2"}

DataEndpoints == {"POST /quiz-results", "GET /quiz-results/:userId"}

\* bodies of POST /quiz-results (with or without a createdAt of the caller)
\* and the path parameter of GET /quiz-results/:userId
Bodies(endpoint) ==
  {[userId |-> u, createdAt |-> c] :
     u \in Users,
     c \in IF endpoint = "POST /quiz-results" THEN {JsUndefined, JsNum(99)} ELSE {JsUndefined}}

\* find({ userId }) that ignores its filter
findAll(coll, userId) == coll

\* find({ userId }): the documents whose userId equals the filter's
find(coll, userId) == SelectSeq(coll, LAMBDA d : d.userId = userId)

\* sort({ createdAt: -1 }) leaves a list that is descending in createdAt
descending(list) ==
  \A i, j \in 1..Len(list) : i < j => list[i].createdAt.v >= list[j].createdAt.v

\* the orders a sort may leave documents in (ties are in no fixed order)
SortOrders == UNION {Permutations(1..n) : n \in 0..MaxDocs}

\* res.json of a document: a Date is written as its ISO string
toJSON(d) == [d EXCEPT !.createdAt = [t |-> "isostring", v |-> @.v]]

\* insertOne resolves: the document is in the collection under a fresh _id
InsertResolve(r) ==
  /\ req[r].pc = "op"
  /\ req[r].endpoint = "POST /quiz-results"
  /\ LET id == Len(quiz_results) + 1
     IN /\ quiz_results' = Append(quiz_results,
               [_id |-> id, userId |-> req[r].doc.userId, createdAt |-> req[r].doc.createdAt])
        /\ req' = [req EXCEPT ![r] = send(@, [status |-> 200, body |-> [insertedId |-> id]], "op")]
  /\ UNCHANGED <<mongoUri, geminiKey, db, listening, quizCall>>

\* find(..).sort(..).toArray() resolves with the matching documents in the
\* order f, which the sort has made descending
FindResolve(r, f) ==
  /\ req[r].pc = "op"
  /\ req[r].endpoint = "GET /quiz-results/:userId"
  /\ LET found == find(quiz_results, req[r].body.userId)
         list == [i \in 1..Len(found) |-> found[f[i]]]
     IN /\ DOMAIN f = 1..Len(found)
        /\ descending(list)
        /\ req' = [req EXCEPT ![r] =
                     send(@, [status |-> 200,
                              body |-> [array |-> [i \in 1..Len(list) |-> toJSON(list[i])]]], "op")]
  /\ UNCHANGED <<mongoUri, geminiKey, db, listening, quizCall, quiz_results>>

\* inserts accepted or in flight stay within MaxDocs documents
RoomFor(endpoint) ==
  endpoint = "POST /quiz-results" =>
    Len(quiz_results)
      + Cardinality({s \in Slots : req[s].endpoint = "POST /quiz-results" /\ req[s].pc \in {"connect", "op"}})
      < MaxDocs

\* a /quiz-results request arrives with its body or path parameter
RecvQuizResults(r, endpoint, body, t) ==
  /\ RoomFor(endpoint)
  /\ body \in Bodies(endpoint)
  /\ RecvStoreAt(r, endpoint, body, t)

NextData ==
  \E r \in 1..MaxDataReq :
    \/ \E endpoint \in DataEndpoints : \E u \in Users : \E c \in {JsUndefined, JsNum(99)} :
         \E t \in 0..MaxClock :
           RecvQuizResults(r, endpoint, [userId |-> u, createdAt |-> c], t)
    \/ \E t \in 0..MaxClock : ConnectResolveAt(r, t)
    \/ ConnectReject(r)
    \/ InsertResolve(r)
    \/ \E f \in SortOrders : FindResolve(r, f)
    \/ OpReject(r)
    \/ Close(r)

InitData == Init /\ geminiKey = "set"

\* the /quiz-results handlers against a store that keeps its documents
SpecData == InitData /\ [][NextData]_vars

\* ------------------------------------------------- vocabulary of the claims
Done(q) == q.pc = "done"

\* the model answered with this status and its body was read
Answered(q, status) == Done(q) /\ q.outcome = "text" /\ q.status = status

\* the five model-backed endpoints whose catch block answers 500
PlainEndpoints == ModelEndpoints \ {"POST /trending"}

IsEnvelope(body) ==
  /\ DOMAIN body = {"candidates"}
  /\ Len(body.candidates) = 1
  /\ DOMAIN body.candidates[1] = {"content"}
  /\ DOMAIN body.candidates[1].content = {"parts"}
  /\ Len(body.candidates[1].content.parts) = 1
  /\ DOMAIN body.candidates[1].content.parts[1] = {"text"}

EnvelopeText(body) == body.candidates[1].content.parts[1].text

CareerFields ==
  {"id", "title", "description", "category", "requiredSkills", "recommendedSkills",
   "averageSalary", "growthPotential", "companies", "courses", "imageUrl"}

QuestionFields == {"id", "question", "options", "correctAnswerId", "explanation", "points"}

IsCareerList(value) ==
  /\ DOMAIN value = {"careers"}
  /\ \A i \in 1..Len(value.careers) : DOMAIN value.careers[i] = CareerFields

IsQuiz(value) ==
  /\ DOMAIN value = {"id", "title", "description", "questions"}
  /\ \A i \in 1..Len(value.questions) : DOMAIN value.questions[i] = QuestionFields

IsRecommendationList(value) ==
  /\ DOMAIN value = {"recommendations"}
  /\ \A i \in 1..Len(value.recommendations) :
       DOMAIN value.recommendations[i] = {"career", "explanation"}

\* the schema the text of an envelope parses to, "none" when it parses to none
KindOf(body) ==
  IF ~ IsEnvelope(body) \/ "json" \notin DOMAIN EnvelopeText(body) THEN "none"
  ELSE LET value == EnvelopeText(body).json
       IN IF IsCareerList(value) THEN "careers"
          ELSE IF IsQuiz(value) THEN "quiz"
          ELSE IF IsRecommendationList(value) THEN "recommendations"
          ELSE "none"

\* the questions of a quiz envelope
QuestionsOf(body) == EnvelopeText(body).json.questions

IsErrorBody(body) == DOMAIN body = {"error"}

\* the body is one of the three static fallbacks
IsFallback(body) ==
  \/ body = Envelope(JSONstringify([careers |-> careers]))
  \/ body = Envelope(JSONstringify(recommendations))
  \/ /\ KindOf(body) = "quiz"
     /\ EnvelopeText(body).json.title = "Personality Assessment Quiz"

\* the success body of the model is JSON
Parses(txt) == "json" \in DOMAIN txt

\* a failure of the call other than an answered 429
NonQuotaFailure(q) ==
  /\ Done(q)
  /\ \/ q.outcome \in {"nokey", "fetchreject", "textreject"}
     \/ q.outcome = "text" /\ ~ Ok(q.status) /\ q.status # 429
     \/ q.outcome = "text" /\ Ok(q.status) /\ ~ Parses(q.txt)

CatalogSize == 12

Prefix(n) == [i \in 1..(IF n < CatalogSize THEN n ELSE CatalogSize) |-> allQuestions[i]]

\* ------------------------------------------------------------------ claims
\* C1: POST /trending answers 200 in every case (credential absent, network
\* failure, 429, any other non-success status, unparsable body): the body is
\* what the model's success body parsed to, and the trending fallback otherwise.
C1_TrendingAlways200 ==
  \A r \in Slots :
    LET q == req[r]
    IN (Done(q) /\ q.endpoint = "POST /trending") =>
         /\ q.res.status = 200
         /\ IF q.outcome = "text" /\ Ok(q.status) /\ Parses(q.txt)
            THEN q.res.body = q.txt.json
            ELSE q.res.body = Envelope(JSONstringify([careers |-> careers]))

\* /trending has answered after the model answered a non-success status other than 429
C1_Witness ==
  \E r \in Slots :
    /\ Answered(req[r], 500)
    /\ req[r].endpoint = "POST /trending"
    /\ req[r].res.status = 200

\* C2: on an answered 429 each fallback-aware endpoint answers 200 with an
\* envelope whose text parses to that endpoint's own schema: /quiz a Quiz,
\* /career-recommendations a Recommendation list, /trending a Career list.
C2_FallbackKindMatchesEndpoint ==
  \A r \in Slots :
    LET q == req[r]
    IN (Answered(q, 429) /\ q.endpoint \in {"POST /quiz", "POST /career-recommendations", "POST /trending"}) =>
         /\ q.res.status = 200
         /\ IsEnvelope(q.res.body)
         /\ KindOf(q.res.body) =
              (CASE q.endpoint = "POST /quiz" -> "quiz"
                 [] q.endpoint = "POST /career-recommendations" -> "recommendations"
                 [] OTHER -> "careers")

\* /quiz has answered a 429 of the model with a quiz
C2_Witness ==
  \E r \in Slots :
    /\ Answered(req[r], 429)
    /\ req[r].endpoint = "POST /quiz"
    /\ KindOf(req[r].res.body) = "quiz"

C4_QuizFallbackSizedByRequest ==
  \A r \in Slots :
    LET q == req[r]
    IN (Answered(q, 429) /\ q.endpoint = "POST /quiz" /\ q.param.t = "number" /\ q.param.v >= 0) =>
         /\ q.payload.contents[1].parts[1].text.count = q.param
         /\ QuestionsOf(q.res.body) = Prefix(q.param.v)

\* /quiz was asked for 0 questions and the model answered 429
C4_FailingInput ==
  \E r \in Slots :
    /\ Answered(req[r], 429)
    /\ req[r].endpoint = "POST /quiz"
    /\ req[r].param = JsNum(0)

\* no element of the sequence occurs twice
NoRepeat(s) == \A i, j \in 1..Len(s) : s[i] = s[j] => i = j

\* C5: the quiz fallback builder, given a count n >= 0, returns the first
\* min(n, 12) questions of the canonical list in their order: no padding, no
\* repeated question, no wrap-around, and exactly the 12 questions for n > 12.
C5_BuilderTakesPrefix ==
  (quizCall.called /\ quizCall.arg.t = "number" /\ quizCall.arg.v >= 0) =>
     /\ KindOf(quizCall.ret) = "quiz"
     /\ QuestionsOf(quizCall.ret) = Prefix(quizCall.arg.v)
     /\ NoRepeat(QuestionsOf(quizCall.ret))
     /\ quizCall.arg.v > CatalogSize => QuestionsOf(quizCall.ret) = allQuestions

\* the builder was asked for more questions than the catalog holds
C5_Witness ==
  /\ quizCall.called
  /\ quizCall.arg.t = "number"
  /\ quizCall.arg.v > CatalogSize
  /\ Len(QuestionsOf(quizCall.ret)) = CatalogSize

\* C6: when store-backed requests run initDb concurrently before a
\* connection exists, a single call of client.connect() is in flight.
C6_SingleConnectionAttempt ==
  Cardinality({r \in Slots : req[r].pc = "connect"}) <= 1

CredentialAbsent == geminiKey \in {"undefined", ""}

\* C7: without the model credential /recommend, /enrich, /quiz,
\* /careers-by-category and /career-recommendations answer 500 {error}, and
\* no request to the model is made.
C7_NoCredentialNoCall ==
  CredentialAbsent =>
    \A r \in Slots :
      LET q == req[r]
      IN /\ q.fetchCalls = 0
         /\ q.pc \notin {"fetch", "text"}
         /\ (Done(q) /\ q.endpoint \in PlainEndpoints) =>
              (q.res.status = 500 /\ IsErrorBody(q.res.body) /\ q.sent = 1)

\* /quiz has answered 500 with the credential set to the empty string
C7_Witness ==
  /\ geminiKey = ""
  /\ \E r \in Slots :
       /\ Done(req[r])
       /\ req[r].endpoint = "POST /quiz"
       /\ req[r].res.status = 500

\* C8: every 200 response of a model-backed endpoint, from the live model or
\* from the fallback, is an envelope whose text parses to a Career list, a
\* Quiz or a Recommendation list.
C8_Every200IsTypedEnvelope ==
  \A r \in Slots :
    LET q == req[r]
    IN (Done(q) /\ q.endpoint \in ModelEndpoints /\ q.res.status = 200) =>
         /\ IsEnvelope(q.res.body)
         /\ KindOf(q.res.body) \in {"careers", "quiz", "recommendations"}

\* C9: no error is retried: a request issues at most one call to the model
\* and at most one store operation (and one connection attempt), whatever
\* the outcome.
C9_NoRetry ==
  \A r \in Slots :
    /\ req[r].fetchCalls <= 1
    /\ req[r].storeOps <= 1
    /\ req[r].connectCalls <= 1
    /\ Done(req[r]) => req[r].sent = 1

\* /trending has recovered from a network failure after its one call
C9_Witness ==
  \E r \in Slots :
    /\ Done(req[r])
    /\ req[r].endpoint = "POST /trending"
    /\ req[r].outcome = "fetchreject"
    /\ req[r].fetchCalls = 1

StoreUnconfigured == mongoUri \in {"undefined", ""}

\* C10: without the store connection string every store-backed request
\* answers 500 {error} and no connection is attempted, the process keeps
\* serving, and the model-backed endpoints answer as the model's outcome
\* decides (200 on a parsed success and on an answered 429).
C10_NoUriStoreFailsOnly ==
  StoreUnconfigured =>
    /\ listening
    /\ db = "undefined"
    /\ \A r \in Slots :
         LET q == req[r]
         IN /\ q.connectCalls = 0
            /\ q.storeOps = 0
            /\ q.pc \notin {"connect", "op"}
            /\ (Done(q) /\ q.endpoint \in StoreEndpoints) =>
                 (q.res.status = 500 /\ IsErrorBody(q.res.body))
            /\ (Done(q) /\ q.endpoint \in ModelEndpoints) =>
                 /\ q.res.body # [error |-> "Error: MONGODB_URI not set"]
                 /\ (Answered(q, 429) \/ (Answered(q, 200) /\ Parses(q.txt))) => q.res.status = 200

\* a store-backed request has answered 500 with the connection string unset
C10_Witness ==
  /\ mongoUri = "undefined"
  /\ listening
  /\ \E r \in Slots :
       /\ Done(req[r])
       /\ req[r].endpoint = "GET /quiz-results/:userId"
       /\ req[r].res.status = 500
       /\ req[r].connectCalls = 0

\* C11: a GET /quiz-results/:userId that succeeds returns every document a
\* succeeded POST /quiz-results has stored under that userId, each with its
\* createdAt, returns no document of another userId, and lists them by
\* createdAt descending; a succeeded POST stores its document with a createdAt.
C11_PostThenGet ==
  [][\A r \in Slots :
       LET q == req[r]
           p == req'[r]
       IN (q.pc = "op" /\ p.pc = "done" /\ p.res.status = 200) =>
            /\ q.endpoint = "GET /quiz-results/:userId" =>
                 LET list == p.res.body.array
                 IN /\ \A k \in 1..Len(quiz_results) :
                         quiz_results[k].userId = q.body.userId =>
                           \E i \in 1..Len(list) :
                             /\ list[i]._id = quiz_results[k]._id
                             /\ list[i].createdAt.t = "isostring"
                             /\ list[i].createdAt.v = quiz_results[k].createdAt.v
                    /\ \A i \in 1..Len(list) : list[i].userId = q.body.userId
                    /\ \A i, j \in 1..Len(list) : i < j =>
                         /\ list[i].createdAt.v >= list[j].createdAt.v
                         /\ list[i]._id # list[j]._id
            /\ q.endpoint = "POST /quiz-results" =>
                 /\ Len(quiz_results') = Len(quiz_results) + 1
                 /\ quiz_results'[Len(quiz_results')].userId = q.body.userId
                 /\ quiz_results'[Len(quiz_results')].createdAt.t = "date"
                 /\ p.res.body.insertedId = quiz_results'[Len(quiz_results')]._id]_vars

\* a GET has returned two documents of its user, the newer one first
C11_Witness ==
  \E r \in Slots :
    /\ Done(req[r])
    /\ req[r].endpoint = "GET /quiz-results/:userId"
    /\ req[r].res.status = 200
    /\ Len(req[r].res.body.array) = 2
    /\ req[r].res.body.array[1].createdAt.v > req[r].res.body.array[2].createdAt.v

\* C12: the store connection is lazy and reused. The process starts with no
\* connection attempt made and no handle; client.connect() is called only in
\* the step that receives a store-backed request, and only while no attempt
\* has succeeded (db unset); the handle, once set, stays for the process's life.
C12_LazyAndReused ==
  /\ db = "undefined"
  /\ \A r \in Slots : req[r].connectCalls = 0 /\ req[r].pc = "idle"
  /\ [][/\ \A r \in Slots :
            (req'[r].connectCalls > req[r].connectCalls \/ (req[r].pc # "connect" /\ req'[r].pc = "connect")) =>
              /\ db = "undefined"
              /\ req[r].pc = "idle"
              /\ req'[r].endpoint \in StoreEndpoints
              /\ req'[r].connectCalls = 1
        /\ db = "db" => db' = "db"]_vars

\* a store-backed request runs its store operation on the handle an earlier
\* request's connection left, without a connect of its own
C12_Witness ==
  /\ db = "db"
  /\ \E r \in Slots :
       /\ req[r].pc = "op"
       /\ req[r].endpoint \in StoreEndpoints
       /\ req[r].connectCalls = 0

\* C13: a store-backed request is not left pending by a store that is down.
\* A connection attempt never waits longer than the server selection bound;
\* an attempt that ends without success answers the request with 500 and an
\* error body; and every request waiting on a connection attempt or on its
\* store operation is eventually answered.
C13_StoreRequestAnswered ==
  /\ [](\A r \in Slots : req[r].elapsed <= ServerSelectionTimeoutS)
  /\ [][\A r \in Slots :
          (req[r].pc = "connect" /\ req'[r].pc # "connect") =>
            \/ req'[r].pc = "op" /\ db' = "db"
            \/ /\ Done(req'[r])
               /\ req'[r].res.status = 500
               /\ IsErrorBody(req'[r].res.body)]_vars
  /\ \A r \in Slots :
       (req[r].pc \in {"connect", "op"}) ~> (req[r].pc = "done" /\ req[r].sent = 1)

\* a connection attempt has run into its bound and the request was answered 500
C13_Witness ==
  \E r \in Slots :
    /\ Done(req[r])
    /\ req[r].outcome = "connecttimeout"
    /\ req[r].elapsed = ServerSelectionTimeoutS
    /\ req[r].res.status = 500

\* C14: two requests to the same model-backed endpoint with equal body
\* parameters carry the same prompt text, whenever each was received and
\* whatever was requested before.
C14_PromptDeterministic ==
  \A r1, r2 \in Slots :
    (/\ req[r1].pc = "fetch"
     /\ req[r2].pc = "fetch"
     /\ req[r1].endpoint = req[r2].endpoint
     /\ req[r1].param = req[r2].param)
      => req[r1].payload.contents[1].parts[1].text = req[r2].payload.contents[1].parts[1].text

\* C15: a /quiz request without numQuestions uses the count 5 throughout: its
\* prompt names 5 questions and, when the model answers 429, the response is
\* 200 with the first 5 questions of the canonical list. The builder's own
\* default of 10 sizes the fallback only when no count is handed to it.
C15_OmittedCountIsFive ==
  /\ \A r \in Slots :
       LET q == req[r]
       IN (q.endpoint = "POST /quiz" /\ q.param = JsUndefined) =>
            /\ q.fetchCalls > 0 => q.payload.contents[1].parts[1].text.count = JsNum(5)
            /\ Answered(q, 429) =>
                 /\ q.res.status = 200
                 /\ Len(QuestionsOf(q.res.body)) = 5
                 /\ QuestionsOf(q.res.body) = Prefix(5)
  /\ \A t \in 0..MaxClock :
       Len(QuestionsOf(buildQuizFallbackCandidates(JsUndefined, t))) = 10

\* /quiz was asked without numQuestions and the model answered 429
C15_Witness ==
  \E r \in Slots :
    /\ Answered(req[r], 429)
    /\ req[r].endpoint = "POST /quiz"
    /\ req[r].param = JsUndefined
    /\ req[r].fetchCalls = 1

\* a question answers to one of its own options, whose ids are distinct
SoundQuestion(q) ==
  /\ \E k \in 1..Len(q.options) : q.options[k].id = q.correctAnswerId
  /\ \A k, l \in 1..Len(q.options) : q.options[k].id = q.options[l].id => k = l

\* the questions are sound and no two share an id
SoundQuestions(qs) ==
  /\ \A i \in 1..Len(qs) : SoundQuestion(qs[i])
  /\ \A i, j \in 1..Len(qs) : qs[i].id = qs[j].id => i = j

\* C16: in the static quiz catalog every question's correctAnswerId is the id
\* of one of its own options, option ids are distinct within a question and
\* question ids are distinct; the same holds of the questions of every quiz
\* the fallback builder returns.
C16_CatalogIntegrity ==
  /\ SoundQuestions(allQuestions)
  /\ quizCall.called => SoundQuestions(QuestionsOf(quizCall.ret))

\* the builder has returned a quiz of several questions, short of the catalog
C16_Witness ==
  /\ quizCall.called
  /\ Len(QuestionsOf(quizCall.ret)) > 1
  /\ Len(QuestionsOf(quizCall.ret)) < CatalogSize

\* the trending-careers fallback envelope
TrendingFallback == Envelope(JSONstringify([careers |-> careers]))

\* endpoints that pass no fallback kind to the model client
NoKindEndpoints == {"POST /recommend", "POST /enrich", "POST /careers-by-category"}

\* fallback kinds that are neither 'quiz' nor 'recommendations'
OtherKinds == {"trending", "", "careers", "Quiz", "recommendation", "undefined"}

\* C17: when the model answers 429, /recommend, /enrich and
\* /careers-by-category respond 200 with the trending-careers fallback, the
\* payload /trending answers with on 429, whatever the request's parameters;
\* the model client selects the trending fallback for every fallback kind
\* other than 'quiz' and 'recommendations'.
C17_NoKindFallsBackToTrending ==
  /\ \A r \in Slots :
       LET q == req[r]
       IN (Answered(q, 429) /\ q.endpoint \in NoKindEndpoints \cup {"POST /trending"}) =>
            /\ q.res.status = 200
            /\ q.res.body = TrendingFallback
  /\ \A kind \in OtherKinds :
       callGemini(429, NoTxt, kind, [numQuestions |-> JsUndefined], 0)
         = [threw |-> FALSE, value |-> TrendingFallback]

\* /careers-by-category was asked with a count of its own and the model
\* answered 429
C17_Witness ==
  \E r \in Slots :
    /\ Answered(req[r], 429)
    /\ req[r].endpoint = "POST /careers-by-category"
    /\ req[r].param # JsUndefined
    /\ req[r].res.status = 200

\* the falsy values of a count: absent, null, 0 and the empty string
FalsyCounts == {JsUndefined, JsNull, JsNum(0), JsEmptyString}

\* C18: when the numQuestions that reaches the 429 branch of the model client
\* is falsy, the quiz fallback holds exactly the first 10 questions of the
\* canonical list: in a /quiz request whose body gives null, 0 or the empty
\* string, and in any call of the client with the kind 'quiz' and a falsy or
\* absent count.
C18_FalsyCountGivesTen ==
  /\ \A r \in Slots :
       LET q == req[r]
       IN (Answered(q, 429) /\ q.endpoint = "POST /quiz" /\ q.param \in FalsyCounts \ {JsUndefined}) =>
            /\ q.res.status = 200
            /\ Len(QuestionsOf(q.res.body)) = 10
            /\ QuestionsOf(q.res.body) = Prefix(10)
  /\ \A n \in FalsyCounts :
       QuestionsOf(callGemini(429, NoTxt, "quiz", [numQuestions |-> n], 0).value) = Prefix(10)

\* /quiz was asked with the empty string as its count and the model answered 429
C18_Witness ==
  \E r \in Slots :
    /\ Answered(req[r], 429)
    /\ req[r].endpoint = "POST /quiz"
    /\ req[r].param = JsEmptyString
    /\ Len(QuestionsOf(req[r].res.body)) = 10

\* C19: the shared handle db is set only by the step in which a connection
\* attempt completes successfully; a connect that fails leaves db as it was
\* and its request is answered 500 with an error body; and a store-backed
\* request that arrives while db is unset (the connection string being
\* configured) calls client.connect(), whatever failed before it.
C19_HandleSetOnlyOnSuccess ==
  [][/\ db' # db =>
          /\ db = "undefined"
          /\ db' = "db"
          /\ \E r \in Slots : req[r].pc = "connect" /\ req'[r].pc = "op"
     /\ \A r \in Slots :
          /\ (req[r].pc = "connect" /\ req'[r].pc = "done") =>
               /\ db' = db
               /\ req'[r].res.status = 500
               /\ IsErrorBody(req'[r].res.body)
          /\ (/\ req[r].pc = "idle"
              /\ req'[r].pc # "idle"
              /\ req'[r].endpoint \in StoreEndpoints
              /\ db = "undefined"
              /\ mongoUri = "set") =>
               /\ req'[r].pc = "connect"
               /\ req'[r].connectCalls = 1]_vars

\* one request's connection attempt has failed and was answered 500, db is
\* unset, and another request is attempting the connection
C19_Witness ==
  /\ db = "undefined"
  /\ \E r1, r2 \in Slots :
       /\ Done(req[r1])
       /\ req[r1].outcome = "connectreject"
       /\ req[r1].res.status = 500
       /\ req[r2].pc = "connect"

\* C20: every request is answered exactly once. A request has sent at most
\* one response, has sent it exactly when its handler is through, and until
\* then waits on an external call; the step in which an awaited call resolves
\* or rejects moves the handler to its next await or to its one response, and
\* nothing follows a response; a step of one request, an error included,
\* changes no other request.
C20_AnsweredExactlyOnce ==
  /\ [](\A r \in Slots :
          LET q == req[r]
          IN /\ q.sent <= 1
             /\ q.sent = 1 <=> q.pc = "done"
             /\ q.pc = "done" => q.res.status \in {200, 500}
             /\ q.pc # "done" => q.res = NoRes /\ q.pc \in {"idle", "fetch", "text", "connect", "op"})
  /\ [][\A r \in Slots :
          req'[r] # req[r] =>
            /\ \A s \in Slots \ {r} : req'[s] = req[s]
            /\ req[r].pc = "idle" => req'[r].pc \in {"fetch", "connect", "op", "done"}
            /\ req[r].pc = "fetch" => req'[r].pc \in {"text", "done"}
            /\ req[r].pc = "connect" => req'[r].pc \in {"op", "done"}
            /\ req[r].pc \in {"text", "op"} => req'[r].pc = "done"
            /\ req[r].pc = "done" => req'[r] = Idle]_vars

\* one request has been answered with an error while another, of another
\* endpoint, is still waiting on its external call
C20_Witness ==
  \E r1, r2 \in Slots :
    /\ Done(req[r1])
    /\ req[r1].sent = 1
    /\ req[r1].res.status = 500
    /\ req[r2].pc \in {"fetch", "text", "connect", "op"}
    /\ req[r2].sent = 0
    /\ req[r2].endpoint # req[r1].endpoint

\* C21: the createdAt of a stored quiz result is the server's clock value at
\* the POST /quiz-results request. The document the handler hands to
\* insertOne carries a Date of the server's clock, whatever createdAt the body
\* gave, and the body's other field as it came; a successful insert adds
\* exactly that document to the collection and changes no earlier one.
C21_CreatedAtServerAssigned ==
  [][\A r \in Slots :
       LET q == req[r]
           p == req'[r]
       IN /\ (q.pc # "op" /\ p.pc = "op" /\ p.endpoint = "POST /quiz-results") =>
               /\ p.doc.createdAt.t = "date"
               /\ p.doc.createdAt.v \in 0..MaxClock
               /\ p.doc.createdAt # p.body.createdAt
               /\ p.doc.userId = p.body.userId
          /\ (/\ q.pc = "op"
              /\ q.endpoint = "POST /quiz-results"
              /\ p.pc = "done"
              /\ p.res.status = 200) =>
               /\ Len(quiz_results') = Len(quiz_results) + 1
               /\ \A k \in 1..Len(quiz_results) : quiz_results'[k] = quiz_results[k]
               /\ quiz_results'[Len(quiz_results')].createdAt = q.doc.createdAt
               /\ quiz_results'[Len(quiz_results')].userId = q.body.userId]_vars

\* a POST whose body gave a createdAt of its own has succeeded, and the
\* document stored for it carries the server's Date
C21_Witness ==
  \E r \in Slots :
    /\ Done(req[r])
    /\ req[r].endpoint = "POST /quiz-results"
    /\ req[r].res.status = 200
    /\ req[r].body.createdAt = JsNum(99)
    /\ \E k \in 1..Len(quiz_results) :
         /\ quiz_results[k]._id = req[r].res.body.insertedId
         /\ quiz_results[k].createdAt.t = "date"
         /\ quiz_results[k].userId = req[r].body.userId
====
